---- MODULE Spec2Model ----
(***************************************************************************)
(* Model of the Spark-TTS serverless worker: handler() of src/handler.py   *)
(* as a sequence of blocking stage calls inside one try/except, and the    *)
(* S3Handler gateway of src/s3_utils.py.  External libraries (boto3,       *)
(* torchaudio, soundfile, whisperx, ass, the synthesis model) are the      *)
(* environment: each call draws its outcome from the outcomes the library  *)
(* can produce.                                                            *)
(***************************************************************************)
EXTENDS Integers, Sequences, FiniteSets, TLC

(* ---------------- bounds ---------------- *)
\* most samples in a synthesized waveform
MaxSamples == 2
\* longest list of segments the alignment engine returns
MaxSegs == 2
\* most characters after the prefix of a locator string
MaxTail == 3

(* ---------------- Python values ---------------- *)
PyNone == [t |-> "None"]
PyStr(s) == [t |-> "str", v |-> s]
PyBool(b) == [t |-> "bool", v |-> b]
PyList(l) == [t |-> "list", v |-> l]
PyArray(n) == [t |-> "array", len |-> n]

\* Python truth value of the values the handler tests
Truthy(x) ==
    CASE x.t = "None" -> FALSE
      [] x.t = "str" -> Len(x.v) > 0
      [] x.t = "bool" -> x.v
      [] x.t = "list" -> Len(x.v) > 0
      [] OTHER -> TRUE

\* dict.get(key, default)
Get(d, k, default) == IF k \in DOMAIN d THEN d[k] ELSE default

\* a str is a tuple of characters
Chars_s3 == <<"s", "3", ":", "/", "/">>
Chars_http == <<"h", "t", "t", "p">>
Chars_output == <<"o", "u", "t", "p", "u", "t">>

\* str.startswith
StartsWith(s, p) == Len(s) >= Len(p) /\ SubSeq(s, 1, Len(p)) = p

\* index of the first "/" of s, 0 when there is none
FirstSlash(s) ==
    IF \E i \in 1..Len(s) : s[i] = "/"
    THEN CHOOSE i \in 1..Len(s) : s[i] = "/" /\ \A j \in 1..(i - 1) : s[j] # "/"
    ELSE 0

\* s.split('/', 1)
Split1(s) ==
    LET i == FirstSlash(s)
    IN IF i = 0 THEN <<s>> ELSE <<SubSeq(s, 1, i - 1), SubSeq(s, i + 1, Len(s))>>

(* ---------------- storage gateway (s3_utils.py) ---------------- *)
\* the configured default bucket, S3Handler.bucket_name
bucket_name == <<"d">>

\* download_file's dispatch on the shape of s3_url
ParseLocator(s3_url) ==
    IF StartsWith(s3_url, Chars_s3)
    THEN LET parts == Split1(SubSeq(s3_url, 6, Len(s3_url)))
         IN [form |-> "s3", bucket |-> parts[1],
             key |-> IF Len(parts) > 1 THEN parts[2] ELSE <<>>]
    ELSE IF StartsWith(s3_url, Chars_http)
    THEN [form |-> "http", bucket |-> <<>>, key |-> <<>>]
    ELSE [form |-> "key", bucket |-> bucket_name, key |-> s3_url]

\* the transfer download_file asks for: urllib's urlretrieve(s3_url, ...)
\* (line 104) or s3_client.download_file(bucket, key, ...) (line 113)
Fetch(s3_url) ==
    LET l == ParseLocator(s3_url)
    IN [s3_url |-> s3_url,
        via |-> IF l.form = "http" THEN "urlretrieve" ELSE "s3_client",
        bucket |-> l.bucket, key |-> l.key]

\* what the transfer behind download_file can do, by form
DownloadOutcomes(s3_url) ==
    IF ParseLocator(s3_url).form = "http"
    THEN {"ok", "url_error", "url_error_partial"}
    ELSE {"ok", "not_found", "client_error", "transfer_error"}

\* mutant: the except clauses of download_file log and fall through
DownloadFileSwallows(s3_url, o) ==
    [exc |-> "none", created |-> o \in {"ok", "url_error_partial"}]

\* download_file(s3_url, local_path) under outcome o: the exception it
\* raises ("none": it returns local_path) and whether local_path now exists
DownloadFile(s3_url, o) ==
    CASE o = "ok" -> [exc |-> "none", created |-> TRUE]
      [] o \in {"not_found", "client_error"} -> [exc |-> "ClientError", created |-> FALSE]
      [] o = "transfer_error" -> [exc |-> "S3TransferFailedError", created |-> FALSE]
      [] o = "url_error" -> [exc |-> "URLError", created |-> FALSE]
      [] o = "url_error_partial" -> [exc |-> "ContentTooShortError", created |-> TRUE]

\* a pre-signed URL for a key
AccessURL(s3_key) == [t |-> "url", key |-> s3_key]

PresignOutcomes == {"ok", "client_error", "other_error"}

\* generate_presigned_url(s3_key) under outcome o
GeneratePresignedUrl(s3_key, o) ==
    CASE o = "ok" -> [exc |-> "none", ret |-> AccessURL(s3_key)]
      [] o = "client_error" -> [exc |-> "none", ret |-> PyNone]
      [] o = "other_error" -> [exc |-> "NoCredentialsError", ret |-> PyNone]

TransferOutcomes == {"ok", "file_not_found", "no_credentials", "upload_failed"}

\* mutant: upload_file logs its exceptions and returns None
UploadFileSwallows(local_path, exists, s3_key, t, p) ==
    LET done == local_path.t = "str" /\ exists /\ t = "ok"
    IN [exc |-> "none",
        ret |-> IF done /\ p = "ok" THEN AccessURL(s3_key) ELSE PyNone,
        stored |-> done]

\* upload_file(local_path, s3_key): local_path is a Python value (a str path
\* or None), exists tells whether the file is there, t is the transfer's
\* outcome and p the URL issuance's.  stored: the object is in the bucket.
UploadFile(local_path, exists, s3_key, t, p) ==
    IF local_path.t # "str"
    THEN [exc |-> "ValueError", ret |-> PyNone, stored |-> FALSE]
    ELSE IF ~exists \/ t = "file_not_found"
    THEN [exc |-> "FileNotFoundError", ret |-> PyNone, stored |-> FALSE]
    ELSE IF t = "no_credentials"
    THEN [exc |-> "NoCredentialsError", ret |-> PyNone, stored |-> FALSE]
    ELSE IF t = "upload_failed"
    THEN [exc |-> "S3UploadFailedError", ret |-> PyNone, stored |-> FALSE]
    ELSE LET u == GeneratePresignedUrl(s3_key, p)
         IN [exc |-> u.exc, ret |-> u.ret, stored |-> TRUE]

(* ---------------- the job (handler.py) ---------------- *)
Absent == [t |-> "absent"]

\* job['input'] as a dict: the keys given a value
MkInput(opts) == [k \in {x \in DOMAIN opts : opts[x].t # "absent"} |-> opts[k]]

Text_hi == <<"h", "i">>
Loc_s3 == <<"s", "3", ":", "/", "/", "b", "/", "k">>
Loc_http == <<"h", "t", "t", "p", "s", ":", "/", "/", "x">>
Loc_key == <<"v", "/", "r">>
Name_clip == <<"c", "l", "i", "p">>

TextInputs == {Absent, PyNone, PyStr(<<>>), PyStr(Text_hi)}
UrlInputs == {Absent, PyStr(<<>>), PyStr(Loc_s3), PyStr(Loc_http), PyStr(Loc_key)}
NameInputs == {Absent, PyStr(Name_clip)}
FlagInputs == {Absent, PyBool(FALSE), PyBool(TRUE)}

\* job['id']
JobId == "j1"

\* the segments the alignment engine may return: start and end are float
\* seconds, held as whole microseconds; the text is a str
Segment ==
    {[start |-> 1000500, end |-> 1999999, text |-> <<" ", "a", "\t">>],
     [start |-> 0, end |-> 1000500, text |-> <<"b">>],
     [start |-> 2000000, end |-> 2000999, text |-> <<"a", " ", "b", "\n">>]}
SegLists == UNION {[1..n -> Segment] : n \in 0..MaxSegs}

\* the sample rates the loaded synthesis model may have
SampleRates == {16000, 24000}

VARIABLES
    spark_tts_model, \* the global model handle: None, or [sample_rate]
    s3_handler,     \* the global gateway handle: None, or [bucket_name]
    inits,          \* history: how often each handle was constructed
    download_req,   \* the last download_file call: its s3_url and the
                    \* transfer it asked for
    ass_doc,        \* the events generate_subtitles wrote to the .ass file
    pc,             \* the handler's position
    job,            \* the job being handled: [id, input]
    audio_data,     \* local audio_data
    word_timings,   \* local word_timings
    subtitles_path, \* local subtitles_path
    subtitles_url,  \* local subtitles_url
    audio_url,      \* local audio_url
    exc,            \* the exception raised in the try block, "none" if none
    result,         \* the value handler() returned
    fs,             \* the files that exist under /tmp
    bucket,         \* the keys of the objects in the bucket
    calls,          \* history: the stages invoked, in order
    failed          \* history: the stages that failed (upload_*: the
                    \* transfer stored nothing or the URL issuance raised,
                    \* so that upload_file raises; presign_*: the URL
                    \* issuance failed, raising or not)

vars == <<spark_tts_model, s3_handler, inits, download_req, ass_doc, pc, job, audio_data, word_timings, subtitles_path, subtitles_url,
          audio_url, exc, result, fs, bucket, calls, failed>>

\* the request's fields as the handler reads them (lines 89-106)
text == Get(job.input, "text", PyNone)
prompt_speech_url == Get(job.input, "prompt_speech_url", PyNone)
output_name == Get(job.input, "output_name", PyStr(Chars_output)).v
enable_whisperx == Get(job.input, "enable_whisperx", PyBool(FALSE))
enable_subtitles == Get(job.input, "enable_subtitles", PyBool(FALSE))

\* the job's temporary files and storage keys
local_ref_path == <<"/tmp/", "r", "e", "f", "_", "a", "u", "d", "i", "o", "_", job.id, ".wav">>
temp_output_path == <<"/tmp/">> \o output_name \o <<"_", job.id, ".wav">>
subtitles_file == <<"/tmp/">> \o output_name \o <<"_", job.id, ".ass">>
audio_key == <<"output/">> \o output_name \o <<"_", job.id, ".wav">>
subtitles_key == <<"output/subtitles/">> \o output_name \o <<"_", job.id, ".ass">>

\* str(e)
Str(e) == e

ErrorResult(msg) == [error |-> msg]

\* mutant: the text check tests for None only
TextIsNone(t) == t.t = "None"

\* `if not text` (line 90)
TextMissing(t) == ~Truthy(t)

\* mutant: the except clause names ClientError
CatchesClientErrorOnly(e) == e = "ClientError"

\* the classes of the exceptions the stages raise, all subclasses of Exception
ExceptionSubclasses ==
    {"ClientError", "S3TransferFailedError", "URLError", "ContentTooShortError",
     "NoCredentialsError", "S3UploadFailedError", "FileNotFoundError", "ValueError",
     "TypeError", "RuntimeError", "OSError"}

\* `except Exception` (line 189)
Catches(e) == e \in ExceptionSubclasses

\* no download_file call made yet
NoRequest == [s3_url |-> <<>>, via |-> "none", bucket |-> <<>>, key |-> <<>>]

\* lines 30-32: the globals before initialize_models(), no job yet
Init ==
    /\ spark_tts_model = PyNone
    /\ s3_handler = PyNone
    /\ inits = [spark_tts_model |-> 0, s3_handler |-> 0]
    /\ download_req = NoRequest
    /\ ass_doc = PyNone
    /\ pc = "startup"
    /\ job = [id |-> JobId, input |-> MkInput([text |-> Absent])]
    /\ audio_data = PyNone
    /\ word_timings = PyNone
    /\ subtitles_path = PyNone
    /\ subtitles_url = PyNone
    /\ audio_url = PyNone
    /\ exc = "none"
    /\ result = PyNone
    /\ fs = {}
    /\ bucket = {}
    /\ calls = <<>>
    /\ failed = {}

\* mutant: lazy loading, nothing is constructed at startup
InitializeLazily(o, r) ==
    /\ pc = "startup"
    /\ pc' = "idle"
    /\ UNCHANGED <<spark_tts_model, s3_handler, inits, download_req, ass_doc, job,
                   audio_data, word_timings, subtitles_path, subtitles_url,
                   audio_url, exc, result, fs, bucket, calls, failed>>

\* lines 36-59 and 283: initialize_models() at import, before
\* runpod.serverless.start; S3Handler(), download_models() and SparkTTS()
\* may each raise, which ends the process before any job
InitializeModels(o, r) ==
    /\ pc = "startup"
    /\ o \in {"ok", "s3_error", "download_error", "model_error"}
    /\ r \in SampleRates
    /\ IF o = "s3_error"
       THEN UNCHANGED <<s3_handler, inits, spark_tts_model>> /\ pc' = "crashed"
       ELSE /\ s3_handler' = [t |-> "S3Handler", bucket_name |-> bucket_name]
            /\ IF o = "ok"
               THEN /\ spark_tts_model' = [t |-> "SparkTTS", sample_rate |-> r]
                    /\ inits' = [spark_tts_model |-> inits.spark_tts_model + 1,
                                 s3_handler |-> inits.s3_handler + 1]
                    /\ pc' = "idle"
               ELSE /\ spark_tts_model' = spark_tts_model
                    /\ inits' = [inits EXCEPT !.s3_handler = @ + 1]
                    /\ pc' = "crashed"
    /\ UNCHANGED <<download_req, ass_doc, job, audio_data, word_timings,
                   subtitles_path, subtitles_url, audio_url, exc, result, fs,
                   bucket, calls, failed>>

\* the stage has raised e: control passes to the except clause
Raise(e) == exc' = e /\ pc' = "except"

\* lines 85-106: the job arrives, the text is validated, the parameters read
HandlerEntry(t, u, n, w, s) ==
    /\ pc = "idle"
    /\ job' = [id |-> JobId,
               input |-> MkInput([text |-> t, prompt_speech_url |-> u, output_name |-> n,
                                  enable_whisperx |-> w, enable_subtitles |-> s])]
    /\ IF TextMissing(text')
       THEN result' = ErrorResult("Text parameter is required") /\ pc' = "returned"
       ELSE /\ result' = result
            /\ pc' = IF Truthy(prompt_speech_url') THEN "download" ELSE "generate"
    /\ UNCHANGED <<spark_tts_model, s3_handler, inits, download_req, ass_doc, audio_data, word_timings, subtitles_path,
                   subtitles_url, audio_url, exc, fs, bucket, calls, failed>>

\* lines 111-113: s3_handler.download_file(prompt_speech_url, local_ref_path)
DownloadReference(o) ==
    /\ pc = "download"
    /\ o \in DownloadOutcomes(prompt_speech_url.v)
    /\ LET r == DownloadFile(prompt_speech_url.v, o)
       IN /\ fs' = IF r.created THEN fs \cup {local_ref_path} ELSE fs
          /\ IF r.exc # "none" THEN Raise(r.exc) ELSE pc' = "load" /\ exc' = exc
    /\ download_req' = Fetch(prompt_speech_url.v)
    /\ calls' = Append(calls, "download")
    /\ failed' = IF o = "ok" THEN failed ELSE failed \cup {"download"}
    /\ UNCHANGED <<spark_tts_model, s3_handler, inits, ass_doc, job, audio_data, word_timings,
                   subtitles_path, subtitles_url, audio_url, result, bucket>>

\* lines 116-121: torchaudio.load(local_ref_path) and the resampling
LoadReference(o) ==
    /\ pc = "load"
    /\ o \in {"ok", "decode_error"}
    /\ IF o = "ok" /\ local_ref_path \in fs
       THEN pc' = "rm_ref" /\ exc' = exc /\ failed' = failed
       ELSE Raise("RuntimeError") /\ failed' = failed \cup {"decode"}
    /\ calls' = Append(calls, "decode")
    /\ UNCHANGED <<spark_tts_model, s3_handler, inits, download_req, ass_doc, job, audio_data, word_timings,
                   subtitles_path, subtitles_url, audio_url, result, fs,
                   bucket>>

\* os.remove(path) under outcome o: the exception and the files left
OsRemove(path, o) ==
    IF o = "ok" /\ path \in fs
    THEN [exc |-> "none", fs |-> fs \ {path}]
    ELSE [exc |-> "OSError", fs |-> fs]

\* line 124: os.remove(local_ref_path)
RemoveReference(o) ==
    /\ pc = "rm_ref"
    /\ o \in {"ok", "os_error"}
    /\ LET r == OsRemove(local_ref_path, o)
       IN /\ fs' = r.fs
          /\ IF r.exc # "none"
             THEN Raise(r.exc) /\ failed' = failed \cup {"rm_ref"}
             ELSE pc' = "generate" /\ exc' = exc /\ failed' = failed
    /\ calls' = Append(calls, "rm_ref")
    /\ UNCHANGED <<spark_tts_model, s3_handler, inits, download_req, ass_doc, job, audio_data, word_timings,
                   subtitles_path, subtitles_url, audio_url, result, bucket>>

\* mutant: a failed synthesis is tried again
AfterGenerateRetry(o) == IF o = "ok" THEN "write" ELSE "generate"

\* where control goes after spark_tts_model.generate: on to sf.write (line
\* 143), or, when it raised, to the except clause (line 189)
AfterGenerate(o) == IF o = "ok" THEN "write" ELSE "except"

\* lines 127-140: spark_tts_model.generate(...)
Generate(o, n) ==
    /\ pc = "generate"
    /\ o \in {"ok", "error"}
    /\ n \in 0..MaxSamples
    /\ pc' = AfterGenerate(o)
    /\ IF o = "ok"
       THEN audio_data' = PyArray(n) /\ exc' = exc /\ failed' = failed
       ELSE audio_data' = audio_data /\ exc' = "RuntimeError"
            /\ failed' = failed \cup {"generate"}
    /\ calls' = Append(calls, "generate")
    /\ UNCHANGED <<spark_tts_model, s3_handler, inits, download_req, ass_doc, job, word_timings, subtitles_path,
                   subtitles_url, audio_url, result, fs, bucket>>

\* mutant: a subtitle request turns the alignment on
AlignmentWantedForSubtitles == Truthy(enable_whisperx) \/ Truthy(enable_subtitles)

\* `if enable_whisperx` (line 148)
AlignmentWanted == Truthy(enable_whisperx)

\* mutant: the subtitle test looks at the flag alone
SubtitlesWantedByFlag(wt) == Truthy(enable_subtitles)

\* `if enable_subtitles and word_timings` (line 154)
SubtitlesWanted(wt) == Truthy(enable_subtitles) /\ Truthy(wt)

\* lines 143-154: sf.write(temp_output_path, audio_data, sample_rate), a
\* failed write may leave a partial file; then the enable_whisperx test
WriteAudio(o) ==
    /\ pc = "write"
    /\ o \in {"ok", "error", "error_partial"}
    /\ fs' = IF o = "error" THEN fs ELSE fs \cup {temp_output_path}
    /\ IF o = "ok"
       THEN /\ exc' = exc /\ failed' = failed
            /\ IF AlignmentWanted
               THEN pc' = "align" /\ word_timings' = word_timings
               ELSE /\ word_timings' = PyNone
                    /\ pc' = IF SubtitlesWanted(PyNone) THEN "subtitles" ELSE "upload_audio"
       ELSE Raise("RuntimeError") /\ failed' = failed \cup {"write"}
            /\ word_timings' = word_timings
    /\ calls' = Append(calls, "write")
    /\ UNCHANGED <<spark_tts_model, s3_handler, inits, download_req, ass_doc, job, audio_data, subtitles_path,
                   subtitles_url, audio_url, result, bucket>>

\* generate_word_timings(audio_path) (lines 193-222) under outcome o: the
\* segments, or None when anything in it raised
GenerateWordTimings(o, segs) == IF o = "ok" THEN PyList(segs) ELSE PyNone

\* lines 148-154: word_timings = generate_word_timings(temp_output_path)
Align(o, segs) ==
    /\ pc = "align"
    /\ o \in {"ok", "error"}
    /\ segs \in SegLists
    /\ o = "error" => segs = <<>>
    /\ word_timings' = GenerateWordTimings(o, segs)
    /\ pc' = IF SubtitlesWanted(word_timings') THEN "subtitles" ELSE "upload_audio"
    /\ calls' = Append(calls, "align")
    /\ failed' = IF o = "ok" THEN failed ELSE failed \cup {"align"}
    /\ UNCHANGED <<spark_tts_model, s3_handler, inits, download_req, ass_doc, job, audio_data, subtitles_path,
                   subtitles_url, audio_url, exc, result, fs, bucket>>

\* the characters str.strip() removes
Whitespace == {" ", "\t", "\n"}

RECURSIVE LStrip(_)
LStrip(s) == IF s # <<>> /\ Head(s) \in Whitespace THEN LStrip(Tail(s)) ELSE s

RECURSIVE RStrip(_)
RStrip(s) ==
    IF s # <<>> /\ s[Len(s)] \in Whitespace
    THEN RStrip(SubSeq(s, 1, Len(s) - 1))
    ELSE s

\* str.strip() (line 261)
Strip(s) == RStrip(LStrip(s))

\* int(x * 1000) for x >= 0 seconds held as microseconds (lines 259-260)
Milliseconds(us) == us \div 1000

\* the ass.Dialogue built for one segment (lines 259-269)
Dialogue(segment) ==
    [layer |-> 0, start |-> Milliseconds(segment.start),
     end |-> Milliseconds(segment.end), style |-> "Default",
     text |-> Strip(segment.text)]

\* mutant: the events are sorted by start time before they are written
SubtitleEventsSorted(segs) ==
    LET n == Len(segs)
        perm == CHOOSE q \in [1..n -> 1..n] :
                    /\ \A i, j \in 1..n : i # j => q[i] # q[j]
                    /\ \A i, j \in 1..n : i < j => segs[q[i]].start <= segs[q[j]].start
    IN [i \in 1..n |-> Dialogue(segs[perm[i]])]

\* doc.events after the loop of lines 258-269
SubtitleEvents(segs) == [i \in 1..Len(segs) |-> Dialogue(segs[i])]

\* generate_subtitles(word_timings, output_name, job_id) (lines 224-280)
\* under outcome o: the path written, or None when anything in it raised
GenerateSubtitles(o) == IF o = "ok" THEN PyStr(subtitles_file) ELSE PyNone

\* line 156: subtitles_path = generate_subtitles(...); a failure inside
\* doc.dump_file leaves the file that open() created; iterating anything
\* but a list of segments fails
Subtitles(o) ==
    /\ pc = "subtitles"
    /\ o \in {"ok", "error", "error_partial"}
    /\ o = "ok" => word_timings.t = "list"
    /\ subtitles_path' = GenerateSubtitles(o)
    /\ ass_doc' = IF o = "ok" THEN PyList(SubtitleEvents(word_timings.v)) ELSE ass_doc
    /\ fs' = IF o = "error" THEN fs ELSE fs \cup {subtitles_file}
    /\ pc' = "upload_subtitles"
    /\ calls' = Append(calls, "subtitles")
    /\ failed' = IF o = "ok" THEN failed ELSE failed \cup {"subtitles"}
    /\ UNCHANGED <<spark_tts_model, s3_handler, inits, download_req, job, audio_data, word_timings,
                   subtitles_url, audio_url, exc, result, bucket>>

\* lines 157-160: subtitles_url = s3_handler.upload_file(subtitles_path, key)
UploadSubtitles(t, p) ==
    /\ pc = "upload_subtitles"
    /\ t \in TransferOutcomes /\ p \in PresignOutcomes
    /\ LET r == UploadFile(subtitles_path, subtitles_file \in fs, subtitles_key, t, p)
       IN /\ bucket' = IF r.stored THEN bucket \cup {subtitles_key} ELSE bucket
          /\ IF r.exc # "none"
             THEN Raise(r.exc) /\ subtitles_url' = subtitles_url
             ELSE pc' = "rm_subtitles" /\ exc' = exc /\ subtitles_url' = r.ret
          /\ failed' = failed
                \cup (IF ~r.stored \/ p = "other_error" THEN {"upload_subtitles"} ELSE {})
                \cup (IF r.stored /\ p # "ok" THEN {"presign_subtitles"} ELSE {})
    /\ calls' = Append(calls, "upload_subtitles")
    /\ UNCHANGED <<spark_tts_model, s3_handler, inits, download_req, ass_doc, job, audio_data, word_timings,
                   subtitles_path, audio_url, result, fs>>

\* line 161: os.remove(subtitles_path)
RemoveSubtitles(o) ==
    /\ pc = "rm_subtitles"
    /\ o \in {"ok", "os_error"}
    /\ LET r == IF subtitles_path.t = "str"
                THEN OsRemove(subtitles_path.v, o)
                ELSE [exc |-> "TypeError", fs |-> fs]
       IN /\ fs' = r.fs
          /\ IF r.exc # "none"
             THEN Raise(r.exc) /\ failed' = failed \cup {"rm_subtitles"}
             ELSE pc' = "upload_audio" /\ exc' = exc /\ failed' = failed
    /\ calls' = Append(calls, "rm_subtitles")
    /\ UNCHANGED <<spark_tts_model, s3_handler, inits, download_req, ass_doc, job, audio_data, word_timings,
                   subtitles_path, subtitles_url, audio_url, result, bucket>>

\* lines 164-167: audio_url = s3_handler.upload_file(temp_output_path, key)
UploadAudio(t, p) ==
    /\ pc = "upload_audio"
    /\ t \in TransferOutcomes /\ p \in PresignOutcomes
    /\ LET r == UploadFile(PyStr(temp_output_path), temp_output_path \in fs, audio_key, t, p)
       IN /\ bucket' = IF r.stored THEN bucket \cup {audio_key} ELSE bucket
          /\ IF r.exc # "none"
             THEN Raise(r.exc) /\ audio_url' = audio_url
             ELSE pc' = "rm_audio" /\ exc' = exc /\ audio_url' = r.ret
          /\ failed' = failed
                \cup (IF ~r.stored \/ p = "other_error" THEN {"upload_audio"} ELSE {})
                \cup (IF r.stored /\ p # "ok" THEN {"presign_audio"} ELSE {})
    /\ calls' = Append(calls, "upload_audio")
    /\ UNCHANGED <<spark_tts_model, s3_handler, inits, download_req, ass_doc, job, audio_data, word_timings,
                   subtitles_path, subtitles_url, result, fs>>

\* line 170: os.remove(temp_output_path)
RemoveAudio(o) ==
    /\ pc = "rm_audio"
    /\ o \in {"ok", "os_error"}
    /\ LET r == OsRemove(temp_output_path, o)
       IN /\ fs' = r.fs
          /\ IF r.exc # "none"
             THEN Raise(r.exc) /\ failed' = failed \cup {"rm_audio"}
             ELSE pc' = "respond" /\ exc' = exc /\ failed' = failed
    /\ calls' = Append(calls, "rm_audio")
    /\ UNCHANGED <<spark_tts_model, s3_handler, inits, download_req, ass_doc, job, audio_data, word_timings,
                   subtitles_path, subtitles_url, audio_url, result, bucket>>

\* mutant: the duration is computed for a fixed 16 kHz
DurationAt16k(n, rate) == [num |-> n, den |-> 16000]

\* len(audio_data) / sample_rate, as the fraction it is
Duration(n, rate) == [num |-> n, den |-> rate]

\* lines 173-184: the response dict
Response ==
    [status |-> "success", audio_url |-> audio_url,
     sample_rate |-> spark_tts_model.sample_rate,
     duration |-> Duration(audio_data.len, spark_tts_model.sample_rate)]
    @@ (IF Truthy(word_timings) THEN "word_timings" :> word_timings.v ELSE <<>>)
    @@ (IF Truthy(subtitles_url) THEN "subtitles_url" :> subtitles_url ELSE <<>>)

\* lines 173-187: build the response and return it
Respond ==
    /\ pc = "respond"
    /\ result' = Response
    /\ pc' = "returned"
    /\ UNCHANGED <<spark_tts_model, s3_handler, inits, download_req, ass_doc, job, audio_data, word_timings,
                   subtitles_path, subtitles_url, audio_url, exc, fs, bucket,
                   calls, failed>>

\* lines 189-191: except Exception as e: return {"error": str(e)}
HandlerExcept ==
    /\ pc = "except"
    /\ IF Catches(exc)
       THEN result' = ErrorResult(Str(exc)) /\ pc' = "returned"
       ELSE result' = result /\ pc' = "escaped"
    /\ UNCHANGED <<spark_tts_model, s3_handler, inits, download_req, ass_doc, job, audio_data, word_timings,
                   subtitles_path, subtitles_url, audio_url, exc, fs, bucket,
                   calls, failed>>

Next ==
    \/ \E o \in {"ok", "s3_error", "download_error", "model_error"},
          r \in SampleRates : InitializeModels(o, r)
    \/ \E t \in TextInputs, u \in UrlInputs, n \in NameInputs, w \in FlagInputs,
          s \in FlagInputs : HandlerEntry(t, u, n, w, s)
    \/ \E o \in {"ok", "not_found", "client_error", "transfer_error", "url_error",
                 "url_error_partial"} : DownloadReference(o)
    \/ \E o \in {"ok", "decode_error"} : LoadReference(o)
    \/ \E o \in {"ok", "os_error"} : RemoveReference(o)
    \/ \E o \in {"ok", "error"}, n \in 0..MaxSamples : Generate(o, n)
    \/ \E o \in {"ok", "error", "error_partial"} : WriteAudio(o)
    \/ \E o \in {"ok", "error"}, segs \in SegLists : Align(o, segs)
    \/ \E o \in {"ok", "error", "error_partial"} : Subtitles(o)
    \/ \E t \in TransferOutcomes, p \in PresignOutcomes : UploadSubtitles(t, p)
    \/ \E o \in {"ok", "os_error"} : RemoveSubtitles(o)
    \/ \E t \in TransferOutcomes, p \in PresignOutcomes : UploadAudio(t, p)
    \/ \E o \in {"ok", "os_error"} : RemoveAudio(o)
    \/ Respond
    \/ HandlerExcept

Spec == Init /\ [][Next]_vars

(* ---------------- shapes of the returned value ---------------- *)
InCalls(stage) == \E i \in 1..Len(calls) : calls[i] = stage

IsError(r) == DOMAIN r = {"error"}

IsSuccess(r) == "status" \in DOMAIN r /\ r.status = "success"

\* the audio URL, the sample rate and the duration are there, the URL not null
AudioPopulated(r) ==
    /\ {"audio_url", "sample_rate", "duration"} \subseteq DOMAIN r
    /\ r.audio_url.t = "url"

\* upload_file returned for the audio, rather than raising
AudioUploadSucceeded == InCalls("upload_audio") /\ "upload_audio" \notin failed

\* the stages whose failure raises into the handler's except clause
RaisingStages ==
    {"download", "decode", "rm_ref", "generate", "write", "upload_subtitles",
     "rm_subtitles", "upload_audio", "rm_audio"}

(* ---------------- C1 ---------------- *)
\* C1: whatever stages fail, handler() returns a value and no exception
\* escapes it; a failure that raised is returned as {"error": str(e)}.
C1_NeverEscapes ==
    /\ pc # "escaped"
    /\ pc = "returned" => IsError(result) \/ IsSuccess(result)
    /\ (pc = "returned" /\ (exc # "none" \/ failed \cap RaisingStages # {}))
          => IsError(result) /\ result.error = exc /\ exc # "none"

C1_Witness ==
    pc = "returned" /\ "rm_audio" \in failed /\ exc = "OSError" /\ IsError(result)

(* ---------------- C2 ---------------- *)
\* C2: when handler() returns, none of the job's temporary files (reference
\* audio, waveform file, subtitle file) exists.
C2_NoTempFilesAtReturn ==
    pc = "returned" => fs \cap {local_ref_path, temp_output_path, subtitles_file} = {}

(* ---------------- C3 ---------------- *)
\* C3: alignment enabled and failed, synthesis and the audio upload
\* succeeded (no stage raised into the handler): the result is a success
\* with the audio fields populated and neither timed segments nor a
\* subtitle URL.
C3_AlignmentFailureDegrades ==
    (/\ pc = "returned"
     /\ Truthy(enable_whisperx)
     /\ "align" \in failed
     /\ InCalls("generate") /\ "generate" \notin failed
     /\ AudioUploadSucceeded
     /\ failed \cap RaisingStages = {})
    => /\ IsSuccess(result)
       /\ AudioPopulated(result)
       /\ "word_timings" \notin DOMAIN result
       /\ "subtitles_url" \notin DOMAIN result

(* ---------------- C4 ---------------- *)
\* C4: alignment succeeded, enable_subtitles set and the subtitle rendering
\* failed: the job is not failed by it; unless the audio upload fails the
\* result is a success with the audio fields and no subtitle URL.
C4_SubtitleFailureDegrades ==
    (/\ pc = "returned"
     /\ "subtitles" \in failed
     /\ "upload_audio" \notin failed)
    => /\ InCalls("upload_audio")
       /\ AudioPopulated(result) => IsSuccess(result) /\ "subtitles_url" \notin DOMAIN result

(* ---------------- C5 ---------------- *)
\* C5: a subtitle document was produced and its upload failed: the job
\* remains a success, with the subtitle URL omitted.
C5_SubtitleUploadFailureDegrades ==
    (/\ pc = "returned"
     /\ InCalls("subtitles") /\ "subtitles" \notin failed
     /\ "upload_subtitles" \in failed
     /\ "upload_audio" \notin failed)
    => /\ InCalls("upload_audio")
       /\ AudioPopulated(result) => IsSuccess(result) /\ "subtitles_url" \notin DOMAIN result

(* ---------------- C6 ---------------- *)
\* C6: a request whose text is missing or empty returns an error at once:
\* no stage is invoked, no temporary file and no storage object is created.
C6_NoTextNoSideEffects ==
    (pc \notin {"startup", "crashed", "idle"} /\ ~Truthy(text))
    => /\ pc = "returned"
       /\ IsError(result)
       /\ calls = <<>>
       /\ fs = {}
       /\ bucket = {}

C6_Witness ==
    /\ pc = "returned"
    /\ "text" \in DOMAIN job.input /\ text = PyStr(<<>>)
    /\ Truthy(prompt_speech_url) /\ Truthy(enable_subtitles)
    /\ IsError(result)

(* ---------------- C7 ---------------- *)
\* C7: when the download or the decoding of the reference audio fails, the
\* job ends in an error result and neither synthesis nor an upload is invoked.
C7_AcquisitionFailureIsFatal ==
    (failed \cap {"download", "decode"} # {})
    => /\ pc \in {"except", "returned"}
       /\ pc = "returned" => IsError(result)
       /\ ~InCalls("generate")
       /\ ~InCalls("upload_audio")
       /\ ~InCalls("upload_subtitles")
       /\ bucket = {}

C7_Witness ==
    /\ pc = "returned"
    /\ "download" \in failed /\ exc = "ClientError"
    /\ IsError(result)

(* ---------------- C8 ---------------- *)
SuccessShape(r) == IsSuccess(r) /\ AudioPopulated(r) /\ "error" \notin DOMAIN r

\* C8: every returned value is a success with the audio URL (not null), the
\* sample rate and the duration and no error message, or an error message alone.
C8_TwoShapes ==
    pc = "returned" => SuccessShape(result) \/ IsError(result)

(* ---------------- C9 ---------------- *)
\* C9: whenever upload_file returns, the object is stored and the value
\* returned is an access URL for its key, never None.
C9_UploadReturnsUrl ==
    /\ pc = "rm_audio" => audio_key \in bucket /\ audio_url = AccessURL(audio_key)
    /\ pc = "rm_subtitles"
          => subtitles_key \in bucket /\ subtitles_url = AccessURL(subtitles_key)

(* ---------------- C10 ---------------- *)
\* the position of a stage in the orchestration sequence of the spec
StageRank(stage) ==
    CASE stage = "download" -> 1
      [] stage = "decode" -> 2
      [] stage = "generate" -> 3
      [] stage = "write" -> 4
      [] stage = "align" -> 5
      [] stage = "subtitles" -> 6
      [] stage = "upload_audio" -> 7
      [] stage = "upload_subtitles" -> 8
      [] OTHER -> 0

\* C10: the stages of a job run in the order acquisition, synthesis, write,
\* alignment, subtitle rendering, audio upload, subtitle upload; a failed
\* audio upload leaves no subtitle object in storage.
C10_StageOrder ==
    /\ \A i, j \in 1..Len(calls) :
          (i < j /\ StageRank(calls[i]) > 0 /\ StageRank(calls[j]) > 0)
             => StageRank(calls[i]) < StageRank(calls[j])
    /\ "upload_audio" \in failed => subtitles_key \notin bucket

(* ---------------- C11 ---------------- *)
\* C11: a request with enable_subtitles set has its alignment stage invoked
\* after a successful synthesis and write, also when enable_whisperx is
\* false or absent.
C11_SubtitlesImplyAlignment ==
    (/\ Truthy(enable_subtitles)
     /\ InCalls("write") /\ "write" \notin failed
     /\ pc # "align")
    => InCalls("align")

(* ---------------- C12 ---------------- *)
\* C12: with enable_whisperx false or absent the returned value never
\* contains word_timings, whatever enable_subtitles and the outcomes of the
\* other stages are.
C12_NoAlignmentNoTimings ==
    (pc = "returned" /\ ~Truthy(enable_whisperx))
    => "word_timings" \notin DOMAIN result

C12_Witness ==
    /\ pc = "returned"
    /\ ~Truthy(enable_whisperx) /\ Truthy(enable_subtitles)
    /\ IsSuccess(result)
    /\ "word_timings" \notin DOMAIN result

(* ---------------- C13: download_file on its own ---------------- *)
\* the locator strings tried: a prefix followed by up to MaxTail characters
LocatorPrefixes ==
    {<<>>, Chars_s3, <<"s", "3", ":", "/">>, <<"h", "t", "t">>, Chars_http,
     Chars_http \o <<":", "/", "/">>, Chars_http \o <<"s", ":", "/", "/">>}

LocatorTails == UNION {[1..n -> {"/", "b", "k"}] : n \in 0..MaxTail}

LocatorStrings == {p \o t : p \in LocatorPrefixes, t \in LocatorTails}

\* a constructed gateway about to be given one locator string
InitLocator ==
    /\ spark_tts_model = PyNone
    /\ s3_handler = [t |-> "S3Handler", bucket_name |-> bucket_name]
    /\ inits = [spark_tts_model |-> 0, s3_handler |-> 1]
    /\ download_req \in {[NoRequest EXCEPT !.s3_url = s] : s \in LocatorStrings}
    /\ ass_doc = PyNone
    /\ pc = "download_file"
    /\ job = [id |-> JobId, input |-> MkInput([text |-> Absent])]
    /\ audio_data = PyNone
    /\ word_timings = PyNone
    /\ subtitles_path = PyNone
    /\ subtitles_url = PyNone
    /\ audio_url = PyNone
    /\ exc = "none"
    /\ result = PyNone
    /\ fs = {}
    /\ bucket = {}
    /\ calls = <<>>
    /\ failed = {}

\* s3_handler.download_file(s3_url, local_path) up to the transfer it asks for
ResolveLocator ==
    /\ pc = "download_file"
    /\ download_req' = Fetch(download_req.s3_url)
    /\ pc' = "resolved"
    /\ UNCHANGED <<spark_tts_model, s3_handler, inits, ass_doc, job, audio_data,
                   word_timings, subtitles_path, subtitles_url, audio_url, exc,
                   result, fs, bucket, calls, failed>>

NextLocator == ResolveLocator

SpecLocator == InitLocator /\ [][NextLocator]_vars

\* s begins with p
HasPrefix(s, p) == Len(s) >= Len(p) /\ \A i \in 1..Len(p) : s[i] = p[i]

\* a fully-qualified network URL: scheme http or https, then "://"
IsNetworkURL(s) ==
    \/ HasPrefix(s, <<"h", "t", "t", "p", ":", "/", "/">>)
    \/ HasPrefix(s, <<"h", "t", "t", "p", "s", ":", "/", "/">>)

IsS3Path(s) == HasPrefix(s, <<"s", "3", ":", "/", "/">>)

\* C13: download_file dispatches on the locator's shape: s3://bucket/key is
\* split into that bucket and key; a fully-qualified network URL is fetched
\* directly; every other string, also a key that only begins with "http",
\* is fetched from the default bucket with the whole string as the key.
C13_LocatorDispatch ==
    download_req.via # "none" =>
        LET s == download_req.s3_url
        IN /\ IsS3Path(s) =>
                /\ download_req.via = "s3_client"
                /\ (\E i \in 6..Len(s) : s[i] = "/") =>
                      /\ s = <<"s", "3", ":", "/", "/">> \o download_req.bucket
                                \o <<"/">> \o download_req.key
                      /\ \A i \in 1..Len(download_req.bucket) :
                            download_req.bucket[i] # "/"
           /\ IsNetworkURL(s) => download_req.via = "urlretrieve"
           /\ (~IsS3Path(s) /\ ~IsNetworkURL(s)) =>
                /\ download_req.via = "s3_client"
                /\ download_req.bucket = <<"d">>
                /\ download_req.key = s

(* ---------------- C14 ---------------- *)
\* the stages that come after the synthesis
LaterStages == {"write", "align", "subtitles", "upload_subtitles", "upload_audio"}

\* C14: the synthesis is invoked at most once per job; when it fails the job
\* ends in an error result and no later stage (write, alignment, subtitle
\* rendering, upload) is invoked.
C14_SynthesisOnceAndFatal ==
    /\ Cardinality({i \in 1..Len(calls) : calls[i] = "generate"}) <= 1
    /\ "generate" \in failed =>
          /\ pc \in {"except", "returned"}
          /\ pc = "returned" => IsError(result)
          /\ \A i \in 1..Len(calls) : calls[i] \notin LaterStages
          /\ bucket = {}

C14_Witness ==
    /\ pc = "returned"
    /\ "generate" \in failed
    /\ InCalls("rm_ref")
    /\ IsError(result) /\ result.error = "RuntimeError"

(* ---------------- C15 ---------------- *)
\* C15: when the audio upload fails the job returns an error result, never a
\* success, also after a successful alignment and subtitle upload; the error
\* result carries no audio URL, timed segments or subtitle URL.
C15_AudioUploadFailureIsFatal ==
    (pc = "returned" /\ "upload_audio" \in failed)
    => /\ ~IsSuccess(result)
       /\ "error" \in DOMAIN result
       /\ DOMAIN result \cap {"audio_url", "word_timings", "subtitles_url"} = {}

C15_Witness ==
    /\ pc = "returned"
    /\ "upload_audio" \in failed
    /\ Truthy(word_timings) /\ subtitles_url = AccessURL(subtitles_key)
    /\ IsError(result)

(* ---------------- C16 ---------------- *)
\* C16: the model handle and the gateway handle are each constructed exactly
\* once, before the job is handled, and no step of the handler or of a stage
\* reassigns, re-initializes or tears down either of them.
C16_HandlesConstructedOnce ==
    /\ [](pc \notin {"startup", "crashed"} =>
            /\ inits = [spark_tts_model |-> 1, s3_handler |-> 1]
            /\ spark_tts_model.t = "SparkTTS"
            /\ s3_handler.t = "S3Handler")
    /\ [][pc # "startup" =>
            /\ spark_tts_model' = spark_tts_model
            /\ s3_handler' = s3_handler
            /\ inits' = inits]_vars

C16_Witness ==
    /\ pc = "returned"
    /\ inits = [spark_tts_model |-> 1, s3_handler |-> 1]
    /\ InCalls("download") /\ InCalls("upload_audio")
    /\ IsSuccess(result)

(* ---------------- C17 ---------------- *)
\* C17: in every success result the duration equals the number of samples
\* of the synthesized waveform divided by the reported sample rate, which is
\* the model's.
C17_DurationIsSamplesOverRate ==
    (pc = "returned" /\ IsSuccess(result))
    => /\ result.sample_rate = spark_tts_model.sample_rate
       /\ result.duration.den > 0
       /\ result.duration.num * result.sample_rate
             = audio_data.len * result.duration.den

C17_Witness ==
    /\ pc = "returned"
    /\ IsSuccess(result)
    /\ audio_data.len = 2 /\ result.sample_rate = 24000
    /\ result.duration = [num |-> 2, den |-> 24000]

(* ---------------- C18 ---------------- *)
\* C18: whenever the alignment succeeded and enable_subtitles is set, the
\* subtitle stage is invoked, also when the alignment returned no segment.
C18_SubtitlesAfterEveryAlignment ==
    (/\ InCalls("align") /\ "align" \notin failed
     /\ Truthy(enable_subtitles)
     /\ pc # "subtitles")
    => InCalls("subtitles")

(* ---------------- C19 ---------------- *)
\* r is s without its leading and trailing whitespace
IsStripOf(r, s) ==
    /\ \E a \in 0..Len(s) :
          /\ a + Len(r) <= Len(s)
          /\ \A i \in 1..Len(r) : r[i] = s[a + i]
          /\ \A i \in 1..Len(s) :
                (i <= a \/ i > a + Len(r)) => s[i] \in {" ", "\t", "\n"}
    /\ r # <<>> => r[1] \notin {" ", "\t", "\n"} /\ r[Len(r)] \notin {" ", "\t", "\n"}

\* C19: generate_subtitles writes one event per segment, in the order of the
\* input, also when that is not sorted by start; each event has the
\* segment's start and end in whole milliseconds, its text without
\* surrounding whitespace, and the style "Default".
C19_OneEventPerSegmentInOrder ==
    ass_doc.t = "list" =>
        LET ev == ass_doc.v
            segs == word_timings.v
        IN /\ Len(ev) = Len(segs)
           /\ \A i \in 1..Len(ev) :
                 /\ ev[i].start * 1000 <= segs[i].start
                 /\ segs[i].start < (ev[i].start + 1) * 1000
                 /\ ev[i].end * 1000 <= segs[i].end
                 /\ segs[i].end < (ev[i].end + 1) * 1000
                 /\ IsStripOf(ev[i].text, segs[i].text)
                 /\ ev[i].style = "Default"

C19_Witness ==
    /\ ass_doc.t = "list"
    /\ Len(ass_doc.v) = 2
    /\ word_timings.v[1].start > word_timings.v[2].start
    /\ ass_doc.v[1] = [layer |-> 0, start |-> 1000, end |-> 1999,
                       style |-> "Default", text |-> <<"a">>]
    /\ ass_doc.v[2].start = 0

(* ---------------- C20 ---------------- *)
\* C20: a success result has a subtitle URL only if it has timed segments
\* too and the request set both enable_whisperx and enable_subtitles; a
\* subtitle object is stored only in a job with both flags and segments.
C20_SubtitleUrlNeedsTimings ==
    /\ (pc = "returned" /\ IsSuccess(result) /\ "subtitles_url" \in DOMAIN result)
          => /\ "word_timings" \in DOMAIN result
             /\ Truthy(enable_whisperx)
             /\ Truthy(enable_subtitles)
    /\ subtitles_key \in bucket
          => /\ Truthy(enable_whisperx)
             /\ Truthy(enable_subtitles)
             /\ Truthy(word_timings)

C20_Witness ==
    /\ pc = "returned"
    /\ IsSuccess(result)
    /\ "subtitles_url" \in DOMAIN result
    /\ result.subtitles_url = AccessURL(subtitles_key)
    /\ subtitles_key \in bucket

(* ---------------- C21: setup_volume.py ---------------- *)
VOLUME_PATH == "/runpod-volume/SparkTTS-serverless"
VENV_PATH == "/runpod-volume/SparkTTS-serverless/venv"
MODEL_PATH == "/runpod-volume/SparkTTS-serverless/models/Spark-TTS-0.5B"
CACHE_PATH == "/runpod-volume/SparkTTS-serverless/cache"
SETUP_MARKER == "/runpod-volume/SparkTTS-serverless/.setup_complete"
LOGS_PATH == "/runpod-volume/SparkTTS-serverless/logs"
VENV_PYTHON == "/runpod-volume/SparkTTS-serverless/venv/bin/python"
VENV_PIP == "/runpod-volume/SparkTTS-serverless/venv/bin/pip"
MODEL_CONFIG == "/runpod-volume/SparkTTS-serverless/models/Spark-TTS-0.5B/config.yaml"
MODEL_LLM == "/runpod-volume/SparkTTS-serverless/models/Spark-TTS-0.5B/LLM"

\* the packages of the loop of lines 89-93, in its order
dependencies ==
    <<"transformers==4.46.2", "soundfile==0.12.1", "soxr==0.5.0.post1",
      "gradio==5.18.0", "einops==0.8.1", "numpy==2.2.3", "tqdm==4.66.5",
      "omegaconf==2.3.0", "safetensors==0.5.2", "boto3==1.34.25",
      "runpod==1.6.2", "huggingface-hub==0.20.2",
      "whisperx @ git+https://github.com/m-bain/whisperX.git", "ass==0.5.2">>

\* the paths verify_setup looks for
checks == {VENV_PATH, VENV_PYTHON, MODEL_CONFIG, MODEL_LLM}

\* mutant: subprocess.run without check=True
SubprocessRunUnchecked(o) == "none"

\* subprocess.run(..., check=True): a non-zero exit status raises
SubprocessRun(o) == IF o = "ok" THEN "none" ELSE "CalledProcessError"

\* {VENV_PATH}/bin/pip install ...: the executable has to exist
PipRun(o) == IF VENV_PIP \in fs THEN SubprocessRun(o) ELSE "FileNotFoundError"

\* the installation did not succeed
PipFailed(o) == VENV_PIP \notin fs \/ o # "ok"

\* a fresh volume, setup_volume about to be called
InitSetup ==
    /\ spark_tts_model = PyNone
    /\ s3_handler = PyNone
    /\ inits = [spark_tts_model |-> 0, s3_handler |-> 0]
    /\ download_req = NoRequest
    /\ ass_doc = PyNone
    /\ pc = "setup_volume"
    /\ job = [id |-> JobId, input |-> MkInput([text |-> Absent])]
    /\ audio_data = PyNone
    /\ word_timings = PyNone
    /\ subtitles_path = PyNone
    /\ subtitles_url = PyNone
    /\ audio_url = PyNone
    /\ exc = "none"
    /\ result = PyNone
    /\ fs = {}
    /\ bucket = {}
    /\ calls = <<>>
    /\ failed = {}

\* one step of setup_volume: it is recorded, leaves `add` on the volume, and
\* either raises e out of setup_volume or goes on at `next`; the function
\* returns True where it ends
RunStep(name, e, bad, add, next) ==
    /\ calls' = Append(calls, name)
    /\ failed' = failed \cup (IF bad THEN {name} ELSE {})
    /\ fs' = fs \cup add
    /\ IF e = "none"
       THEN /\ pc' = next
            /\ exc' = exc
            /\ result' = IF next = "setup_returned" THEN PyBool(TRUE) ELSE result
       ELSE /\ pc' = "setup_raised"
            /\ exc' = e
            /\ result' = result
    /\ UNCHANGED <<spark_tts_model, s3_handler, inits, download_req, ass_doc,
                   job, audio_data, word_timings, subtitles_path,
                   subtitles_url, audio_url, bucket>>

\* a test of the volume that runs no step
Goto(next) ==
    /\ pc' = next
    /\ UNCHANGED <<spark_tts_model, s3_handler, inits, download_req, ass_doc,
                   job, audio_data, word_timings, subtitles_path,
                   subtitles_url, audio_url, exc, result, fs, bucket, calls,
                   failed>>

\* `if os.path.exists(SETUP_MARKER)` (line 26)
SetupVolume ==
    /\ pc = "setup_volume"
    /\ Goto(IF SETUP_MARKER \in fs THEN "verify_setup" ELSE "makedirs")


\* verify_setup() (lines 136-161) as called at line 28: the four paths and
\* the import of torch; an ImportError is caught, any other error is not
VerifySetup(o) ==
    /\ pc = "verify_setup"
    /\ LET all_good == checks \subseteq fs /\ o = "ok"
       IN RunStep("verify_setup",
                  IF o = "other_error" THEN "OSError" ELSE "none",
                  ~all_good, {},
                  IF all_good THEN "setup_returned" ELSE "makedirs")

\* os.makedirs(..., exist_ok=True) (lines 37-40)
MakeDirs(o) ==
    /\ pc = "makedirs"
    /\ RunStep("makedirs", IF o = "ok" THEN "none" ELSE "OSError", o # "ok",
               IF o = "ok"
               THEN {VOLUME_PATH, MODEL_PATH, CACHE_PATH, LOGS_PATH}
               ELSE {},
               "create_venv")

\* lines 43-47: python -m venv, unless VENV_PATH exists; a failed creation
\* may leave `left` behind
CreateVenv(o, left) ==
    /\ pc = "create_venv"
    /\ IF VENV_PATH \in fs
       THEN Goto("upgrade_pip")
       ELSE RunStep("create_venv", SubprocessRun(o), o # "ok",
                    IF o = "ok" THEN {VENV_PATH, VENV_PYTHON, VENV_PIP} ELSE left,
                    "upgrade_pip")

\* pip install --upgrade pip (lines 51-53)
UpgradePip(o) ==
    /\ pc = "upgrade_pip"
    /\ RunStep("pip", PipRun(o), PipFailed(o), {}, "install_torch")


\* pip install torch torchvision torchaudio (lines 57-61)
InstallTorch(o) ==
    /\ pc = "install_torch"
    /\ RunStep("torch==2.6.0", PipRun(o), PipFailed(o), {}, "install_flash_attn")

\* pip install flash_attn_url (lines 65-68)
InstallFlashAttn(o) ==
    /\ pc = "install_flash_attn"
    /\ RunStep("flash_attn", PipRun(o), PipFailed(o), {}, "dependencies")

\* the dependencies the loop has installed so far in this run
Installed == {i \in 1..Len(dependencies) : InCalls(dependencies[i])}

\* `for dep in dependencies` (lines 89-93): one iteration
InstallDependency(o) ==
    /\ pc = "dependencies"
    /\ LET i == Cardinality(Installed) + 1
       IN RunStep(dependencies[i], PipRun(o), PipFailed(o), {},
                  IF i = Len(dependencies) THEN "download_models"
                  ELSE "dependencies")

\* lines 96-98 with download_models (lines 107-134), unless config.yaml
\* exists: snapshot_download, on its failure git clone, on that failure the
\* error is raised again; a failed download may leave `left` behind
DownloadModels(o, left) ==
    /\ pc = "download_models"
    /\ IF MODEL_CONFIG \in fs
       THEN Goto("write_marker")
       ELSE RunStep("download_models",
                    IF o = "both_fail" THEN SubprocessRun("fail") ELSE "none",
                    o = "both_fail",
                    IF o = "both_fail" THEN left ELSE {MODEL_CONFIG, MODEL_LLM},
                    "write_marker")

\* lines 101-105: the marker is written and True returned; open() may fail,
\* and a failed write leaves the file it has opened
WriteMarker(o) ==
    /\ pc = "write_marker"
    /\ RunStep("write_marker", IF o = "ok" THEN "none" ELSE "OSError",
               o # "ok",
               IF o = "open_error" THEN {} ELSE {SETUP_MARKER},
               "setup_returned")

\* main() (lines 163-185): the process ends after setup_volume has returned
\* or raised; the next start of the container calls setup_volume again
Main ==
    /\ pc \in {"setup_returned", "setup_raised"}
    /\ pc' = "setup_volume"
    /\ calls' = <<>>
    /\ failed' = {}
    /\ exc' = "none"
    /\ result' = PyNone
    /\ UNCHANGED <<spark_tts_model, s3_handler, inits, download_req, ass_doc,
                   job, audio_data, word_timings, subtitles_path,
                   subtitles_url, audio_url, fs, bucket>>

NextSetup ==
    \/ SetupVolume
    \/ \E o \in {"ok", "ImportError", "other_error"} : VerifySetup(o)
    \/ \E o \in {"ok", "fail"} : MakeDirs(o)
    \/ \E o \in {"ok", "fail"},
          left \in {{}, {VENV_PATH}, {VENV_PATH, VENV_PYTHON}} :
          CreateVenv(o, left)
    \/ \E o \in {"ok", "fail"} : UpgradePip(o)
    \/ \E o \in {"ok", "fail"} : InstallTorch(o)
    \/ \E o \in {"ok", "fail"} : InstallFlashAttn(o)
    \/ \E o \in {"ok", "fail"} : InstallDependency(o)
    \/ \E o \in {"snapshot", "clone", "both_fail"},
          left \in SUBSET {MODEL_CONFIG} : DownloadModels(o, left)
    \/ \E o \in {"ok", "open_error", "write_error"} : WriteMarker(o)
    \/ Main

SpecSetup == InitSetup /\ [][NextSetup]_vars


\* the installations of lines 51-93, in the order of the code
PipSteps == <<"pip", "torch==2.6.0", "flash_attn">> \o dependencies

\* the steps whose failure the claim is about
ProvisionSteps ==
    {"makedirs", "create_venv", "download_models"}
        \cup {PipSteps[i] : i \in 1..Len(PipSteps)}

IsSetupStep(c) == c # "verify_setup"

\* the steps of this run after the marker check
RunSteps == SelectSeq(calls, IsSetupStep)

\* verify_setup was called in this run and returned True
VerifyPassed == InCalls("verify_setup") /\ "verify_setup" \notin failed

\* C21 as stated: the marker is written only as the last step of a run in
\* which the venv creation, every install and the model download have all
\* run without error; a failed step aborts the run with no marker written;
\* with the marker present and verify_setup passing, True is returned and
\* no step is run.
C21_MarkerAfterEveryStepOfTheRun ==
    /\ InCalls("write_marker") =>
          /\ RunSteps = <<"makedirs", "create_venv">> \o PipSteps
                            \o <<"download_models", "write_marker">>
          /\ failed \cap ProvisionSteps = {}
    /\ failed \cap ProvisionSteps # {} =>
          /\ pc = "setup_raised"
          /\ ~InCalls("write_marker")
          /\ result = PyNone
    /\ VerifyPassed =>
          /\ pc = "setup_returned"
          /\ result = PyBool(TRUE)
          /\ calls = <<"verify_setup">>

\* C21 amended: as above, except that the venv creation is left out when
\* VENV_PATH exists and the model download when config.yaml exists.
C21_MarkerAfterStepsNotSkipped ==
    /\ InCalls("write_marker") =>
          /\ \E venv \in {<<>>, <<"create_venv">>},
                dl \in {<<>>, <<"download_models">>} :
                /\ RunSteps = <<"makedirs">> \o venv \o PipSteps \o dl
                                  \o <<"write_marker">>
                /\ venv = <<>> => VENV_PATH \in fs
                /\ dl = <<>> => MODEL_CONFIG \in fs
          /\ failed \cap ProvisionSteps = {}
    /\ failed \cap ProvisionSteps # {} =>
          /\ pc = "setup_raised"
          /\ ~InCalls("write_marker")
          /\ result = PyNone
    /\ VerifyPassed =>
          /\ pc = "setup_returned"
          /\ result = PyBool(TRUE)
          /\ calls = <<"verify_setup">>

C21_Witness ==
    /\ pc = "setup_returned"
    /\ result = PyBool(TRUE)
    /\ InCalls("verify_setup")
    /\ InCalls("write_marker")
    /\ ~InCalls("create_venv")
    /\ ~InCalls("download_models")
    /\ SETUP_MARKER \in fs

====
